---- MODULE Spec2Model ----
(***************************************************************************)
(* Model of the slideshow-to-video pipeline of tiktok-generator:           *)
(* VideoGenerator.generate in its two revisions,                           *)
(*   rev = "audio" : src/unnamed/part_000       (audio track, top text)    *)
(*   rev = "basic" : src/services/videoService.ts                          *)
(* together with the platform objects it drives (image loads, the audio    *)
(* context and its source node, the MediaRecorder and its event queue,     *)
(* requestAnimationFrame).  Time is in milliseconds.                       *)
(***************************************************************************)
EXTENDS Integers, Sequences, FiniteSets, TLC

\* ---------------------------------------------------------------- bounds
MaxImages == 3
MaxFrameDuration == 2
MaxTotalDuration == 5
MaxStep == 2
TickUnit == 500
\* fragments the recorder hands over before it is stopped
MaxFragments == 2
\* caption texts: glyphs per text, glyphs per word of the sample texts,
\* glyphs that fit the caption width
MaxTextLen == 6
MaxWordLen == 2
MaxLineWidth == 6
\* frames one run draws in its animation loop when two runs share a canvas
MaxRunFrames == 2

\* ------------------------------------------------------------- constants
MsPerSecond == 1000

VARIABLES
    pc,               \* position of generate(): see the actions
    config,           \* the VideoConfig of the run (and the revision run)
    load,             \* load[i]: state of the i-th image load
    promise,          \* the promise generate() returned
    log,              \* calls issued on platform objects, in order
    audioContext,     \* local audioContext  # null
    audioDestination, \* local audioDestination # null
    audioSource,      \* local audioSource # null
    ctxState,         \* the AudioContext object: none/suspended/running/closed
    srcState,         \* the AudioBufferSourceNode: none/created/playing/stopped
    audioFailed,      \* the catch block of the audio setup has run
    audioTrack,       \* the recorded stream carries an audio track
    recState,         \* MediaRecorder.state: none/inactive/recording
    recEvents,        \* events the recorder has queued, not yet dispatched
    recFault,         \* the recorder reported an error in this run
    chunks,           \* chunks: ids of the fragments kept
    fragments,        \* number of fragments the recorder has emitted
    emitted,          \* emitted[id]: size of fragment id
    now,              \* the clock (performance.now / rAF timestamp), ms
    startTime,        \* startTime of the animation loop
    rafQueue,         \* number of pending requestAnimationFrame callbacks
    ticks,            \* number of animate() calls run
    framesDrawn,      \* number of drawFrame calls
    lastIndex,        \* image index of the last frame drawn
    lastImage,        \* the image of the last frame drawn (0: none)
    lines,            \* the wrapped caption of the last frame drawn
    wraps,            \* number of times the caption was wrapped
    lastLayers,       \* the layers of the last frame drawn, bottom up
    loadedImages,     \* loadedImages: the result of await Promise.all
    completed,        \* image loads that fired onload, in completion order
    supported,        \* the formats MediaRecorder.isTypeSupported accepts
    mimeType,         \* const mimeType = this.getSupportedMimeType()
    recMime,          \* mediaRecorder.mimeType
    blobType,         \* the type of the Blob built in onstop
    mimePc,           \* position in the format negotiation
    lastElapsed,      \* elapsed of the last animate() call
    wrapIn,           \* wrapText on its own: the text and the width
    wrapOut,          \* wrapText on its own: the lines returned
    wrapPc,           \* wrapText on its own: off/call/done
    runPc,            \* two generate() calls on one instance: position
    runFrames,        \* ... frames each has drawn in its loop
    canvas,           \* ... the call whose frame is on this.canvas
    captured,         \* ... the calls whose frames each stream carries
    drawLog,          \* ... the calls that drew, in order
    stopOnInactive,   \* stop() calls issued on a recorder not recording
    fitIn,            \* the cover fit on its own: img.width, img.height
    fitOut,           \* ... the rectangle handed to drawImage
    fitPc,            \* ... off/call/done
    capIn,            \* the caption block on its own: lines.length, fontSize
    capOut,           \* ... the ly of each line, top down
    capPc,            \* ... off/call/done
    upPc,             \* position of TikTokService.uploadDraft
    upIn,             \* config.accessToken and blob.size of the call
    upInit,           \* initResponse
    upPut,            \* uploadResponse
    upUrl,            \* const uploadUrl
    upLog,            \* the fetch calls issued, in order
    upResult,         \* the promise uploadDraft returned
    pageRev,          \* the page: "library" or "tiktok" (see the page section)
    images,           \* useState images: the number of files
    imagesVersion,    \* the number of times the image list was changed
    status,           \* useState status: an AppStatus
    currentVideoUrl,  \* useState currentVideoUrl: 0 (null) or a generation
    currentBlob,      \* useState currentBlob: NoBlob (null) or a blob
    generating,       \* the generate() calls of the page not yet settled
    generations,      \* the number of generate() calls the page has made
    uploading,        \* the uploadDraft() calls of the page not yet settled
    accessToken,      \* tikTokConfig.accessToken is not empty
    showSettings,     \* useState showSettings
    music,            \* the media library: ids of the music items listed
    elements,         \* the Audio elements created: item and playback state
    endedQueue,       \* elements whose ended event is queued, not yet fired
    audioRef,         \* audioRef.current: 0 (null) or an element
    playingMusicId,   \* useState playingMusicId: 0 (null) or an item
    activeTab         \* useState activeTab

vars == <<pc, config, load, promise, log, audioContext, audioDestination,
          audioSource, ctxState, srcState, audioFailed, audioTrack, recState,
          recEvents, recFault, chunks, fragments, emitted, now, startTime, rafQueue,
          ticks, framesDrawn, lastIndex, lastImage, lines, wraps, lastLayers,
          lastElapsed,
          stopOnInactive, loadedImages, completed, supported, mimeType,
          recMime, blobType, mimePc, wrapIn, wrapOut, wrapPc, runPc,
          runFrames, canvas, captured, drawLog,
          fitIn, fitOut, fitPc, capIn, capOut, capPc,
          upPc, upIn, upInit, upPut, upUrl, upLog, upResult,
          pageRev, images, imagesVersion, status, currentVideoUrl,
          currentBlob, generating, generations, uploading, accessToken,
          showSettings,
          music, elements, endedQueue, audioRef, playingMusicId, activeTab>>

audioVars == <<audioContext, audioDestination, audioSource, ctxState,
               srcState, audioFailed>>
recVars == <<recState, recEvents, recFault, chunks, fragments, emitted,
            audioTrack>>
loopVars == <<now, startTime, rafQueue, ticks, lastElapsed, stopOnInactive>>
frameVars == <<framesDrawn, lastIndex, lastImage, lines, wraps, lastLayers>>
joinVars == <<loadedImages, completed>>
mimeVars == <<supported, mimeType, recMime, blobType, mimePc>>
wrapVars == <<wrapIn, wrapOut, wrapPc>>
surfaceVars == <<runPc, runFrames, canvas, captured, drawLog>>
runVars == <<pc, config, load, promise, log, audioVars, recVars, loopVars,
             frameVars, joinVars>>
layoutVars == <<fitIn, fitOut, fitPc, capIn, capOut, capPc>>
\* what lies outside VideoGenerator.generate and its parts
uploadVars == <<upPc, upIn, upInit, upPut, upUrl, upLog, upResult>>
pageVars == <<pageRev, images, imagesVersion, status, currentVideoUrl,
              currentBlob, generating, generations, uploading, accessToken,
              showSettings>>
libraryVars == <<music, elements, endedQueue, audioRef, playingMusicId,
                 activeTab>>
extVars == <<layoutVars, uploadVars, pageVars, libraryVars>>

\* --------------------------------------------------------------- helpers
\* number of occurrences of x in s
Count(s, x) == Cardinality({i \in 1..Len(s) : s[i] = x})

Called(x) == \E i \in 1..Len(log) : log[i] = x

\* index of the first x in s (x occurs in s)
Pos(s, x) ==
    CHOOSE i \in 1..Len(s) : s[i] = x /\ \A j \in 1..(i - 1) : s[j] # x

\* x was called, and before any call of y
CalledBefore(x, y) ==
    /\ Called(x)
    /\ Called(y) => Pos(log, x) < Pos(log, y)

Revisions == {"audio", "basic"}

\* the generate() calls made on one VideoGenerator
Runs == {1, 2}

Configs ==
    [rev : Revisions,
     images : 0..MaxImages,
     audioUrl : BOOLEAN,
     frameDuration : 1..MaxFrameDuration,
     totalDuration : 1..MaxTotalDuration,
     overlayText : {<<"x">>},
     maxWidth : {2},
     topText : {FALSE},
     emojiCount : {0}]

NoPromise == [state |-> "none", blob |-> <<>>, cause |-> ""]
Resolved(blob) == [state |-> "resolved", blob |-> blob, cause |-> ""]
Rejected(cause) == [state |-> "rejected", blob |-> <<>>, cause |-> cause]

\* resolve()/reject() of a promise: only a pending promise is settled
SettleOverwrite(p, outcome) == outcome
Settle(p, outcome) == IF p.state = "pending" THEN outcome ELSE p

\* if (config.images.length === 0)
NoImagesNever(c) == FALSE
NoImages(c) == c.images = 0

\* Promise.all over the image loads: "failed" as soon as one load failed,
\* "joined" when all are loaded, "loading" otherwise
JoinLoadsSettled(l) ==
    IF \A i \in DOMAIN l : l[i] # "pending" THEN "joined" ELSE "loading"
JoinLoads(l) ==
    IF \E i \in DOMAIN l : l[i] = "failed" THEN "failed"
    ELSE IF \A i \in DOMAIN l : l[i] = "loaded" THEN "joined"
    ELSE "loading"

\* the value of Promise.all: slot i holds the image decoded from
\* config.images[i] (image i), whatever the completion order was
JoinResultByCompletion(n, order) == order
JoinResult(n, order) == [i \in 1..n |-> i]

\* elapsed >= totalDurationMs
LoopDoneStrict(elapsed, totalDurationMs) == elapsed > totalDurationMs
LoopDone(elapsed, totalDurationMs) == elapsed >= totalDurationMs

\* Math.floor(elapsed / frameDurationMs) % loadedImages.length
ImageIndexNoWrap(elapsed, frameDurationMs, n) ==
    IF elapsed \div frameDurationMs < n THEN elapsed \div frameDurationMs
    ELSE n - 1
ImageIndex(elapsed, frameDurationMs, n) == (elapsed \div frameDurationMs) % n

TotalDurationMs == config.totalDuration * MsPerSecond
FrameDurationMs == config.frameDuration * MsPerSecond

\* ---------------------------------------------------------------- text
\* A text is a sequence of glyphs; widths are in glyphs, every glyph
\* (the space included) as wide as any other.
Space == " "
Glyphs == {"x", Space}

\* text.split(" ")
RECURSIVE Split(_)
Split(text) ==
    IF \A i \in 1..Len(text) : text[i] # Space
    THEN <<text>>
    ELSE LET k == CHOOSE i \in 1..Len(text) :
                     text[i] = Space /\ \A j \in 1..(i - 1) : text[j] # Space
         IN  <<SubSeq(text, 1, k - 1)>>
                 \o Split(SubSeq(text, k + 1, Len(text)))

\* this.ctx.measureText(testLine).width
MeasureText(s) == Len(s)

\* if (testWidth > maxWidth && n > 0)
WrapBreakNever(testWidth, maxWidth, n) == FALSE
WrapBreakAtLimit(testWidth, maxWidth, n) == testWidth >= maxWidth /\ n > 0
WrapBreak(testWidth, maxWidth, n) == testWidth > maxWidth /\ n > 0

\* lines.push(line); return lines
WrapFinishDropsLast(out, line) == out
WrapFinish(out, line) == Append(out, line)

\* line = words[n] + " "
StartLineEmpty(word) == <<>>
StartLine(word) == word \o <<Space>>

\* for (let n = 0; n < words.length; n++) { ... }
RECURSIVE WrapLoop(_, _, _, _, _)
WrapLoop(words, n, line, out, maxWidth) ==
    IF n >= Len(words)
    THEN WrapFinish(out, line)
    ELSE LET testLine == line \o words[n + 1] \o <<Space>>
         IN  IF WrapBreak(MeasureText(testLine), maxWidth, n)
             THEN WrapLoop(words, n + 1, StartLine(words[n + 1]),
                           Append(out, line), maxWidth)
             ELSE WrapLoop(words, n + 1, testLine, out, maxWidth)

\* wrapText(text, fontSize): maxWidth is canvas.width - 100 in glyphs of
\* the font at fontSize
wrapTextNoEmptyCheck(text, maxWidth) ==
    WrapLoop(Split(text), 0, <<>>, <<>>, maxWidth)
wrapText(text, maxWidth) ==
    IF text = <<>> THEN <<>>
    ELSE WrapLoop(Split(text), 0, <<>>, <<>>, maxWidth)

NoWrap == [text |-> <<>>, maxWidth |-> 0]

NoFit == [width |-> 0, height |-> 0]
NoRect == [unit |-> 0, x |-> 0, y |-> 0, w |-> 0, h |-> 0]
NoCaption == [n |-> 0, fontSize |-> 0]

\* drawFrame's geometry is not exercised on its own
LayoutOff ==
    /\ fitIn = NoFit
    /\ fitOut = NoRect
    /\ fitPc = "off"
    /\ capIn = NoCaption
    /\ capOut = <<>>
    /\ capPc = "off"

\* no URL yet; no response yet; a fetch that rejected
None == "none"
NoResponse == [ok |-> FALSE, body |-> "none"]
FetchFailed == [ok |-> FALSE, body |-> "failed"]

\* uploadDraft has not been called
UploadOff ==
    /\ upPc = "off"
    /\ upIn = [accessToken |-> "", size |-> 0]
    /\ upInit = NoResponse
    /\ upPut = NoResponse
    /\ upUrl = None
    /\ upLog = <<>>
    /\ upResult = "pending"

\* currentBlob = null
NoBlob == [generation |-> 0, imagesVersion |-> 0]

\* the page as first rendered
PageOff ==
    /\ pageRev = "library"
    /\ images = 0
    /\ imagesVersion = 0
    /\ status = "IDLE"
    /\ currentVideoUrl = 0
    /\ currentBlob = NoBlob
    /\ generating = {}
    /\ generations = 0
    /\ uploading = {}
    /\ accessToken = FALSE
    /\ showSettings = FALSE

\* the media library is not mounted
LibraryOff ==
    /\ music = {}
    /\ elements = <<>>
    /\ endedQueue = {}
    /\ audioRef = 0
    /\ playingMusicId = 0
    /\ activeTab = "images"

ExtOff ==
    /\ LayoutOff
    /\ UploadOff
    /\ PageOff
    /\ LibraryOff

\* a VideoGenerator on which generate() has not been called
NoRun ==
    /\ pc = "idle"
    /\ config = [rev |-> "audio", images |-> 0, audioUrl |-> FALSE,
                 frameDuration |-> 1, totalDuration |-> 1,
                 overlayText |-> <<"x">>, maxWidth |-> 2,
                 topText |-> FALSE, emojiCount |-> 0]
    /\ load = <<>>
    /\ promise = NoPromise
    /\ log = <<>>
    /\ audioContext = FALSE
    /\ audioDestination = FALSE
    /\ audioSource = FALSE
    /\ ctxState = "none"
    /\ srcState = "none"
    /\ audioFailed = FALSE
    /\ audioTrack = FALSE
    /\ recState = "none"
    /\ recEvents = <<>>
    /\ recFault = FALSE
    /\ chunks = <<>>
    /\ fragments = 0
    /\ emitted = <<>>
    /\ now = TickUnit
    /\ startTime = 0
    /\ rafQueue = 0
    /\ ticks = 0
    /\ framesDrawn = 0
    /\ lastIndex = -1
    /\ lastImage = 0
    /\ lines = <<>>
    /\ wraps = 0
    /\ lastLayers = <<>>
    /\ loadedImages = <<>>
    /\ completed = <<>>
    /\ supported = {}
    /\ mimeType = ""
    /\ recMime = ""
    /\ blobType = ""
    /\ mimePc = "off"
    /\ lastElapsed = -1
    /\ stopOnInactive = 0
    /\ wrapIn = NoWrap
    /\ wrapOut = <<>>
    /\ wrapPc = "off"
    /\ runPc = [r \in Runs |-> "idle"]
    /\ runFrames = [r \in Runs |-> 0]
    /\ canvas = 0
    /\ captured = [r \in Runs |-> {}]
    /\ drawLog = <<>>

\* ------------------------------------------------------------------ Init
Init ==
    /\ pc = "idle"
    /\ config = [rev |-> "audio", images |-> 0, audioUrl |-> FALSE,
                 frameDuration |-> 1, totalDuration |-> 1,
                 overlayText |-> <<"x">>, maxWidth |-> 2,
                 topText |-> FALSE, emojiCount |-> 0]
    /\ load = <<>>
    /\ promise = NoPromise
    /\ log = <<>>
    /\ audioContext = FALSE
    /\ audioDestination = FALSE
    /\ audioSource = FALSE
    /\ ctxState = "none"
    /\ srcState = "none"
    /\ audioFailed = FALSE
    /\ audioTrack = FALSE
    /\ recState = "none"
    /\ recEvents = <<>>
    /\ recFault = FALSE
    /\ chunks = <<>>
    /\ fragments = 0
    /\ emitted = <<>>
    /\ now = TickUnit
    /\ startTime = 0
    /\ rafQueue = 0
    /\ ticks = 0
    /\ framesDrawn = 0
    /\ lastIndex = -1
    /\ lastImage = 0
    /\ lines = <<>>
    /\ wraps = 0
    /\ lastLayers = <<>>
    /\ loadedImages = <<>>
    /\ completed = <<>>
    /\ supported = {}
    /\ mimeType = ""
    /\ recMime = ""
    /\ blobType = ""
    /\ mimePc = "off"
    /\ lastElapsed = -1
    /\ stopOnInactive = 0
    /\ wrapIn = NoWrap
    /\ wrapOut = <<>>
    /\ wrapPc = "off"
    /\ runPc = [r \in Runs |-> "idle"]
    /\ runFrames = [r \in Runs |-> 0]
    /\ canvas = 0
    /\ captured = [r \in Runs |-> {}]
    /\ drawLog = <<>>
    /\ ExtOff


\* -------------------------------------------------------------- generate
\* generate(config): the empty check, then the fan-out of the image loads
\* (loadImage creates one object URL per image)
GenerateFrom(inputs) ==
    /\ pc = "idle"
    /\ \E c \in inputs :
        /\ c.rev = "basic" => ~c.audioUrl
        /\ config' = c
        /\ IF NoImages(c)
           THEN /\ promise' = Rejected("empty")
                /\ pc' = "ended"
                /\ UNCHANGED <<load, joinVars, log>>
           ELSE /\ promise' = [NoPromise EXCEPT !.state = "pending"]
                /\ load' = [i \in 1..c.images |-> "pending"]
                /\ log' = log \o [i \in 1..c.images |-> "createObjectURL"]
                /\ pc' = (CASE JoinLoads(load') = "joined" -> "after_load"
                            [] JoinLoads(load') = "failed" -> "ended"
                            [] OTHER -> "loading")
                /\ loadedImages' = IF JoinLoads(load') = "joined"
                                   THEN JoinResult(c.images, completed)
                                   ELSE loadedImages
                /\ UNCHANGED completed
    /\ UNCHANGED <<mimeVars, wrapVars, surfaceVars, extVars, audioVars, recVars, loopVars, frameVars>>

Generate == GenerateFrom(Configs)

\* img.onload / img.onerror of one image, and the continuation of
\* await Promise.all(...) when this event settles the join
LoadDone ==
    /\ \E i \in DOMAIN load, ok \in BOOLEAN :
        /\ load[i] = "pending"
        /\ load' = [load EXCEPT ![i] = IF ok THEN "loaded" ELSE "failed"]
        /\ completed' = IF ok THEN Append(completed, i) ELSE completed
    /\ IF pc = "loading"
       THEN CASE JoinLoads(load') = "failed" ->
                    /\ promise' = Settle(promise, Rejected("decode"))
                    /\ pc' = "ended"
                    /\ UNCHANGED loadedImages
              [] JoinLoads(load') = "joined" ->
                    /\ pc' = "after_load"
                    /\ loadedImages' = JoinResult(config.images, completed')
                    /\ UNCHANGED promise
              [] OTHER -> UNCHANGED <<pc, promise, loadedImages>>
       ELSE UNCHANGED <<pc, promise, loadedImages>>
    /\ UNCHANGED <<config, mimeVars, wrapVars, surfaceVars, extVars, log, audioVars, recVars, loopVars, frameVars>>

\* the wrapped caption a frame is drawn with: part_000 is handed the
\* lines wrapped at the start of the run; videoService.ts wraps the text
\* inside drawFrame when it is not empty
FrameLines(handed) ==
    IF config.rev = "audio" THEN handed
    ELSE IF config.overlayText # <<>>
         THEN WrapLoop(Split(config.overlayText), 0, <<>>, <<>>,
                       config.maxWidth)
         ELSE <<>>

\* the wrappings done inside one drawFrame
FrameWraps ==
    IF config.rev = "basic" /\ config.overlayText # <<>> THEN 1 ELSE 0

\* the layers drawFrame paints, bottom up: the black background, the
\* image, the top text (part_000 only), the centered caption
FrameLayers(img, ls) ==
    <<"background">>
        \o (IF img # 0 THEN <<"image">> ELSE <<>>)
        \o (IF config.rev = "audio" /\ config.topText
            THEN <<"topText">> ELSE <<>>)
        \o (IF Len(ls) > 0 THEN <<"caption">> ELSE <<>>)

\* drawFrame(img, ...): one frame on the canvas; handed are the lines the
\* caller passes, wrapped the wrapText calls the caller made for them
DrawFrame(index, handed, wrapped) ==
    /\ framesDrawn' = framesDrawn + 1
    /\ lastIndex' = index
    /\ lastImage' = IF index + 1 \in DOMAIN loadedImages
                    THEN loadedImages[index + 1] ELSE 0
    /\ lines' = FrameLines(handed)
    /\ wraps' = wraps + wrapped + FrameWraps
    /\ lastLayers' = FrameLayers(lastImage', lines')

\* the calls between the join and the audio setup, in program order:
\* part_000 opens the capture stream, wraps the caption and then draws the
\* initial frame; videoService.ts draws the initial frame and then opens
\* the capture stream
InitialCallsNoDraw(rev) ==
    IF rev = "audio" THEN <<"captureStream", "wrapText">>
    ELSE <<"captureStream">>
InitialCalls(rev) ==
    IF rev = "audio" THEN <<"captureStream", "wrapText", "drawFrame">>
    ELSE <<"drawFrame", "captureStream">>

\* after the join: capture stream, wrapped caption, initial frame; the
\* completion order of the loads is of no use from here on
AfterLoad ==
    /\ pc = "after_load"
    /\ log' = log \o InitialCalls(config.rev)
    /\ IF Count(InitialCalls(config.rev), "drawFrame") > 0
       THEN DrawFrame(0,
                      IF config.rev = "audio"
                      THEN wrapText(config.overlayText, config.maxWidth)
                      ELSE <<>>,
                      Count(InitialCalls(config.rev), "wrapText"))
       ELSE UNCHANGED frameVars
    /\ completed' = <<>>
    /\ pc' = IF config.rev = "audio" /\ config.audioUrl
             THEN "audio_context" ELSE "recorder_new"
    /\ UNCHANGED <<config, mimeVars, wrapVars, surfaceVars, extVars, load, loadedImages, promise, audioVars, recVars,
                   loopVars>>

\* ----------------------------------------------------------- audio setup
\* catch (e) of the audio setup: the context and the destination are
\* dropped, the source node variable is left as it is
AudioCatchRethrow ==
    /\ audioContext' = FALSE
    /\ audioDestination' = FALSE
    /\ audioFailed' = TRUE
    /\ promise' = Settle(promise, Rejected("audio"))
    /\ pc' = "ended"
    /\ UNCHANGED <<audioSource, log>>
AudioCatch ==
    /\ audioContext' = FALSE
    /\ audioDestination' = FALSE
    /\ audioFailed' = TRUE
    /\ pc' = "recorder_new"
    /\ UNCHANGED <<audioSource, promise, log>>

audioRest == <<config, mimeVars, wrapVars, surfaceVars, extVars, load, joinVars, recVars, loopVars, frameVars>>

\* audioContext = new AudioContext()
NewAudioContext ==
    /\ pc = "audio_context"
    /\ \/ \E st \in {"suspended", "running"} :
            /\ ctxState' = st
            /\ audioContext' = TRUE
            /\ log' = Append(log, "new AudioContext")
            /\ pc' = IF st = "suspended" THEN "audio_resume"
                     ELSE "audio_destination"
            /\ UNCHANGED <<audioDestination, audioSource, audioFailed,
                           promise>>
       \/ AudioCatch /\ UNCHANGED ctxState
    /\ UNCHANGED <<srcState, audioRest>>

\* await audioContext.resume()
ResumeContext ==
    /\ pc = "audio_resume"
    /\ \/ /\ ctxState' = "running"
          /\ pc' = "audio_destination"
          /\ UNCHANGED <<audioContext, audioDestination, audioSource,
                         audioFailed, promise, log>>
       \/ AudioCatch /\ UNCHANGED ctxState
    /\ UNCHANGED <<srcState, audioRest>>

\* audioDestination = audioContext.createMediaStreamDestination()
CreateDestination ==
    /\ pc = "audio_destination"
    /\ \/ /\ audioDestination' = TRUE
          /\ log' = Append(log, "createMediaStreamDestination")
          /\ pc' = "audio_fetch"
          /\ UNCHANGED <<audioContext, audioSource, audioFailed, promise>>
       \/ AudioCatch
    /\ UNCHANGED <<ctxState, srcState, audioRest>>

\* one awaited step of the audio load: fetch, arrayBuffer, decodeAudioData
AwaitAudio(at, next) ==
    /\ pc = at
    /\ \/ /\ pc' = next
          /\ UNCHANGED <<audioContext, audioDestination, audioSource,
                         audioFailed, promise, log>>
       \/ AudioCatch
    /\ UNCHANGED <<ctxState, srcState, audioRest>>

FetchAudio == AwaitAudio("audio_fetch", "audio_arrayBuffer")
ReadArrayBuffer == AwaitAudio("audio_arrayBuffer", "audio_decode")
DecodeAudio == AwaitAudio("audio_decode", "audio_source")

\* audioSource = audioContext.createBufferSource()
CreateSource ==
    /\ pc = "audio_source"
    /\ \/ /\ audioSource' = TRUE
          /\ srcState' = "created"
          /\ log' = Append(log, "createBufferSource")
          /\ pc' = "audio_wire"
          /\ UNCHANGED <<audioContext, audioDestination, audioFailed,
                         promise>>
       \/ AudioCatch /\ UNCHANGED srcState
    /\ UNCHANGED <<ctxState, audioRest>>

\* audioSource.buffer = audioBuffer; audioSource.connect(audioDestination)
WireSource ==
    /\ pc = "audio_wire"
    /\ \/ /\ pc' = "recorder_new"
          /\ UNCHANGED <<audioContext, audioDestination, audioSource,
                         audioFailed, promise, log>>
       \/ AudioCatch
    /\ UNCHANGED <<ctxState, srcState, audioRest>>


\* ------------------------------------------------------------- recorder
\* where control goes when a MediaRecorder constructor throws: the first
\* failure is caught and the construction retried without options, the
\* second one leaves generate()
AfterConstructFailureNoRetry(attempt) == "ended"
AfterConstructFailure(attempt) ==
    IF attempt = 1 THEN "recorder_retry" ELSE "ended"

\* combinedStream, then new MediaRecorder(combinedStream, options)
NewRecorder ==
    /\ pc = "recorder_new"
    /\ audioTrack' = audioDestination
    /\ \E ok \in BOOLEAN :
        IF ok
        THEN /\ recState' = "inactive"
             /\ log' = log \o <<"getSupportedMimeType", "new MediaRecorder">>
             /\ pc' = "recorder_start"
             /\ UNCHANGED promise
        ELSE /\ log' = log \o <<"getSupportedMimeType",
                                "new MediaRecorder throws">>
             /\ pc' = AfterConstructFailure(1)
             /\ promise' = IF pc' = "ended"
                           THEN Settle(promise, Rejected("construct"))
                           ELSE promise
             /\ UNCHANGED recState
    /\ UNCHANGED <<config, mimeVars, wrapVars, surfaceVars, extVars, load, joinVars, audioVars, recEvents,
                   recFault, chunks, fragments, emitted, loopVars, frameVars>>

\* catch: mediaRecorder = new MediaRecorder(combinedStream); a second
\* failure is thrown out of generate()
RetryRecorder ==
    /\ pc = "recorder_retry"
    /\ \E ok \in BOOLEAN :
        IF ok
        THEN /\ recState' = "inactive"
             /\ log' = Append(log, "new MediaRecorder default")
             /\ pc' = "recorder_start"
             /\ UNCHANGED promise
        ELSE /\ log' = Append(log, "new MediaRecorder default throws")
             /\ pc' = AfterConstructFailure(2)
             /\ promise' = IF pc' = "ended"
                           THEN Settle(promise, Rejected("construct"))
                           ELSE promise
             /\ UNCHANGED recState
    /\ UNCHANGED <<config, mimeVars, wrapVars, surfaceVars, extVars, load, joinVars, audioVars, recEvents,
                   recFault, chunks, fragments, emitted, audioTrack, loopVars,
                   frameVars>>

\* if (audioSource) audioSource.start(0); mediaRecorder.start();
StartCallsNoPlayback(hasSource) == <<"recorder.start">>
StartCalls(hasSource) ==
    (IF hasSource THEN <<"source.start">> ELSE <<>>) \o <<"recorder.start">>

\* ondataavailable, onstop and onerror are assigned, then the playback
\* and the recorder are started and the first animation frame is requested
RecordingCallsLateHandlers(hasSource) ==
    StartCalls(hasSource) \o <<"ondataavailable", "onstop", "onerror">>
        \o <<"requestAnimationFrame">>
RecordingCalls(hasSource) ==
    <<"ondataavailable", "onstop", "onerror">> \o StartCalls(hasSource)
        \o <<"requestAnimationFrame">>

\* the handlers are set, then inside the promise executor:
\* audioSource.start(0), mediaRecorder.start(), startTime, the first
\* requestAnimationFrame(animate)
StartRecording ==
    /\ pc = "recorder_start"
    /\ log' = log \o RecordingCalls(audioSource)
    /\ srcState' = IF Count(StartCalls(audioSource), "source.start") > 0
                   THEN "playing" ELSE srcState
    /\ recState' = "recording"
    /\ startTime' = now
    /\ rafQueue' = rafQueue + 1
    /\ pc' = "recording"
    /\ UNCHANGED <<config, mimeVars, wrapVars, surfaceVars, extVars, load, joinVars, promise, audioContext, audioDestination,
                   audioSource, ctxState, audioFailed, audioTrack, recEvents,
                   recFault, chunks, fragments, emitted, now, ticks, lastElapsed,
                   stopOnInactive, frameVars>>

\* animate returns at the end of the loop without mediaRecorder.stop()
RecorderStopForgotten ==
    UNCHANGED <<recState, recEvents, fragments, emitted, stopOnInactive>>

\* MediaRecorder.stop(): a recording recorder becomes inactive and queues
\* its last fragment and the stop event; otherwise nothing is queued
RecorderStop ==
    IF recState = "recording"
    THEN /\ recState' = "inactive"
         /\ \E size \in 0..1 :
              /\ recEvents' = recEvents \o
                  <<[type |-> "data", size |-> size, id |-> fragments + 1],
                    [type |-> "stop", size |-> 0, id |-> 0]>>
              /\ emitted' = Append(emitted, size)
         /\ fragments' = fragments + 1
         /\ UNCHANGED stopOnInactive
    ELSE /\ stopOnInactive' = stopOnInactive + 1
         /\ UNCHANGED <<recState, recEvents, fragments, emitted>>

\* animate(now): one animation frame callback
Tick ==
    /\ rafQueue > 0
    /\ \E k \in 0..MaxStep :
        /\ k = 0 => ticks = 0
        /\ now' = now + k * TickUnit
    /\ ticks' = ticks + 1
    /\ lastElapsed' = now' - startTime
    /\ IF LoopDone(now' - startTime, TotalDurationMs)
       THEN /\ RecorderStop
            /\ log' = Append(log, "recorder.stop")
            /\ rafQueue' = rafQueue - 1
            /\ UNCHANGED frameVars
       ELSE /\ DrawFrame(ImageIndex(now' - startTime, FrameDurationMs,
                                    config.images), lines, 0)
            /\ rafQueue' = rafQueue - 1 + 1
            /\ UNCHANGED <<recState, recEvents, fragments, emitted, stopOnInactive,
                           log>>
    /\ UNCHANGED <<pc, config, mimeVars, wrapVars, surfaceVars, extVars, load, joinVars, promise, audioVars, recFault, chunks,
                   audioTrack, startTime>>

\* the recorder hands over a fragment of its own accord while recording
EncoderData ==
    /\ recState = "recording"
    /\ fragments < MaxFragments
    /\ \E size \in 0..1 :
         /\ recEvents' = Append(recEvents,
               [type |-> "data", size |-> size, id |-> fragments + 1])
         /\ emitted' = Append(emitted, size)
    /\ fragments' = fragments + 1
    /\ UNCHANGED <<pc, config, mimeVars, wrapVars, surfaceVars, extVars, load, joinVars, promise, log,
                   audioVars, recState, recFault, chunks, audioTrack,
                   loopVars, frameVars>>

\* the recorder fails while recording: it becomes inactive and queues the
\* error event, the data gathered so far and the stop event
EncoderError ==
    /\ recState = "recording"
    /\ recState' = "inactive"
    /\ recFault' = TRUE
    /\ \E size \in 0..1 :
         /\ recEvents' = recEvents \o
             <<[type |-> "error", size |-> 0, id |-> 0],
               [type |-> "data", size |-> size, id |-> fragments + 1],
               [type |-> "stop", size |-> 0, id |-> 0]>>
         /\ emitted' = Append(emitted, size)
    /\ fragments' = fragments + 1
    /\ UNCHANGED <<pc, config, mimeVars, wrapVars, surfaceVars, extVars, load, joinVars, promise, log, audioVars, chunks,
                   audioTrack, loopVars, frameVars>>

\* if (e.data.size > 0) chunks.push(e.data)
PushChunkFront(cs, e) == IF e.size > 0 THEN <<e.id>> \o cs ELSE cs
PushChunk(cs, e) == IF e.size > 0 THEN Append(cs, e.id) ELSE cs

\* mediaRecorder.ondataavailable
OnDataAvailable ==
    /\ recEvents # <<>>
    /\ Head(recEvents).type = "data"
    /\ recEvents' = Tail(recEvents)
    /\ chunks' = PushChunk(chunks, Head(recEvents))
    /\ UNCHANGED <<pc, config, mimeVars, wrapVars, surfaceVars, extVars, load, joinVars, promise, log, audioVars, recState,
                   recFault, fragments, emitted, audioTrack, loopVars, frameVars>>

\* the teardown shared by onstop and onerror: audioSource.stop() inside
\* try/catch when the variable is set, audioContext.close() when it is set
TeardownKeepsContext == IF audioSource THEN <<"source.stop">> ELSE <<>>
Teardown ==
    (IF audioSource THEN <<"source.stop">> ELSE <<>>)
        \o (IF audioContext THEN <<"context.close">> ELSE <<>>)

TeardownEffect ==
    /\ srcState' = IF audioSource THEN "stopped" ELSE srcState
    /\ ctxState' = IF audioContext THEN "closed" ELSE ctxState
    /\ UNCHANGED <<audioContext, audioDestination, audioSource, audioFailed>>

\* mediaRecorder.onstop
OnStop ==
    /\ recEvents # <<>>
    /\ Head(recEvents).type = "stop"
    /\ recEvents' = Tail(recEvents)
    /\ TeardownEffect
    /\ log' = log \o Teardown \o <<"resolve">>
    /\ promise' = Settle(promise, Resolved(chunks))
    /\ UNCHANGED <<pc, config, mimeVars, wrapVars, surfaceVars, extVars, load, joinVars, recState, recFault, chunks, fragments, emitted,
                   audioTrack, loopVars, frameVars>>

\* mediaRecorder.onerror
OnError ==
    /\ recEvents # <<>>
    /\ Head(recEvents).type = "error"
    /\ recEvents' = Tail(recEvents)
    /\ TeardownEffect
    /\ log' = log \o Teardown \o <<"reject">>
    /\ promise' = Settle(promise, Rejected("encoder"))
    /\ UNCHANGED <<pc, config, mimeVars, wrapVars, surfaceVars, extVars, load, joinVars, recState, recFault, chunks, fragments, emitted,
                   audioTrack, loopVars, frameVars>>

Next ==
    \/ Generate
    \/ LoadDone
    \/ AfterLoad
    \/ NewAudioContext
    \/ ResumeContext
    \/ CreateDestination
    \/ FetchAudio
    \/ ReadArrayBuffer
    \/ DecodeAudio
    \/ CreateSource
    \/ WireSource
    \/ NewRecorder
    \/ RetryRecorder
    \/ StartRecording
    \/ Tick
    \/ EncoderError
    \/ OnDataAvailable
    \/ OnStop
    \/ OnError

Spec == Init /\ [][Next]_vars


\* The scheduling the run relies on: pending image and audio loads settle,
\* the continuation of generate() after an await runs, animation frames
\* keep being delivered, and the recorder delivers the events it queued.
\* Nothing obliges the recorder to fail, so EncoderError is not fair.
Fairness ==
    /\ WF_vars(LoadDone)
    /\ WF_vars(AfterLoad)
    /\ WF_vars(NewAudioContext)
    /\ WF_vars(ResumeContext)
    /\ WF_vars(CreateDestination)
    /\ WF_vars(FetchAudio)
    /\ WF_vars(ReadArrayBuffer)
    /\ WF_vars(DecodeAudio)
    /\ WF_vars(CreateSource)
    /\ WF_vars(WireSource)
    /\ WF_vars(NewRecorder)
    /\ WF_vars(RetryRecorder)
    /\ WF_vars(StartRecording)
    /\ WF_vars(Tick)
    /\ WF_vars(OnDataAvailable)
    /\ WF_vars(OnStop)
    /\ WF_vars(OnError)

FairSpec == Init /\ [][Next]_vars /\ Fairness


\* ----------------------------------------------------------- rendering
\* Runs without audio over every shape of caption, top text and sticker
\* configuration, in both revisions.
CaptionTexts == {<<>>, <<"x">>, <<"x", Space, "x">>}

FrameConfigs ==
    [rev : Revisions,
     images : 1..2,
     audioUrl : {FALSE},
     frameDuration : {1},
     totalDuration : 1..2,
     overlayText : CaptionTexts,
     maxWidth : {2, 4},
     topText : BOOLEAN,
     emojiCount : {0, 1, 3}]

GenerateCaptioned == GenerateFrom(FrameConfigs)

FrameNext ==
    \/ GenerateCaptioned
    \/ LoadDone
    \/ AfterLoad
    \/ NewRecorder
    \/ RetryRecorder
    \/ StartRecording
    \/ Tick
    \/ EncoderError
    \/ OnDataAvailable
    \/ OnStop
    \/ OnError

FrameSpec == Init /\ [][FrameNext]_vars


\* ------------------------------------------------------ shared canvas
\* Two generate() calls on the same VideoGenerator, without audio: both
\* use this.canvas, and nothing in generate() tells a call that another
\* one is under way.

\* a frame of call r lands on the canvas; every stream that is open
\* carries it
SurfaceDraw(r) ==
    /\ canvas' = r
    /\ drawLog' = Append(drawLog, r)
    /\ captured' = [q \in Runs |->
                      IF q = r \/ runPc[q] = "recording"
                      THEN captured[q] \cup {r} ELSE captured[q]]

\* generate(config) up to await Promise.all
Invoke ==
    \E r \in Runs :
        /\ runPc[r] = "idle"
        /\ runPc' = [runPc EXCEPT ![r] = "loading"]
        /\ UNCHANGED <<runFrames, canvas, captured, drawLog, runVars,
                       mimeVars, wrapVars, extVars>>

\* the images are loaded: captureStream, the initial drawFrame, the
\* recorder is built and started, all in one step without audio
Loaded ==
    \E r \in Runs :
        /\ runPc[r] = "loading"
        /\ runPc' = [runPc EXCEPT ![r] = "recording"]
        /\ SurfaceDraw(r)
        /\ UNCHANGED <<runFrames, runVars, mimeVars, wrapVars, extVars>>

\* animate(now) with elapsed < totalDurationMs: drawFrame
Frame ==
    \E r \in Runs :
        /\ runPc[r] = "recording"
        /\ runFrames[r] < MaxRunFrames
        /\ runFrames' = [runFrames EXCEPT ![r] = @ + 1]
        /\ SurfaceDraw(r)
        /\ UNCHANGED <<runPc, runVars, mimeVars, wrapVars, extVars>>

\* animate(now) with elapsed >= totalDurationMs: mediaRecorder.stop()
Finish ==
    \E r \in Runs :
        /\ runPc[r] = "recording"
        /\ runPc' = [runPc EXCEPT ![r] = "ended"]
        /\ UNCHANGED <<runFrames, canvas, captured, drawLog, runVars,
                       mimeVars, wrapVars, extVars>>

SurfaceNext ==
    \/ Invoke
    \/ Loaded
    \/ Frame
    \/ Finish

SurfaceSpec == Init /\ [][SurfaceNext]_vars


\* ------------------------------------------------------ recording phase
\* The recording on its own, from the state StartRecording leaves for a
\* run of one image without audio, with a recorder that may hand over
\* fragments before it is stopped.
ChunkInit ==
    /\ pc = "recording"
    /\ \E t \in 1..2 :
         config = [rev |-> "audio", images |-> 1, audioUrl |-> FALSE,
                   frameDuration |-> 1, totalDuration |-> t,
                   overlayText |-> <<"x">>, maxWidth |-> 2,
                   topText |-> FALSE, emojiCount |-> 0]
    /\ load = <<"loaded">>
    /\ promise = [NoPromise EXCEPT !.state = "pending"]
    /\ log = <<"createObjectURL", "captureStream", "wrapText", "drawFrame",
               "getSupportedMimeType", "new MediaRecorder",
               "ondataavailable", "onstop", "onerror", "recorder.start",
               "requestAnimationFrame">>
    /\ audioContext = FALSE
    /\ audioDestination = FALSE
    /\ audioSource = FALSE
    /\ ctxState = "none"
    /\ srcState = "none"
    /\ audioFailed = FALSE
    /\ audioTrack = FALSE
    /\ recState = "recording"
    /\ recEvents = <<>>
    /\ recFault = FALSE
    /\ chunks = <<>>
    /\ fragments = 0
    /\ emitted = <<>>
    /\ now = TickUnit
    /\ startTime = TickUnit
    /\ rafQueue = 1
    /\ ticks = 0
    /\ framesDrawn = 1
    /\ lastIndex = 0
    /\ lastImage = 1
    /\ lines = <<(<<"x", Space>>)>>
    /\ wraps = 1
    /\ lastLayers = <<"background", "image", "caption">>
    /\ loadedImages = <<1>>
    /\ completed = <<>>
    /\ supported = {}
    /\ mimeType = ""
    /\ recMime = ""
    /\ blobType = ""
    /\ mimePc = "off"
    /\ lastElapsed = -1
    /\ stopOnInactive = 0
    /\ wrapIn = NoWrap
    /\ wrapOut = <<>>
    /\ wrapPc = "off"
    /\ runPc = [r \in Runs |-> "idle"]
    /\ runFrames = [r \in Runs |-> 0]
    /\ canvas = 0
    /\ captured = [r \in Runs |-> {}]
    /\ drawLog = <<>>
    /\ ExtOff

ChunkNext ==
    \/ Tick
    \/ EncoderData
    \/ EncoderError
    \/ OnDataAvailable
    \/ OnStop
    \/ OnError

ChunkSpec == ChunkInit /\ [][ChunkNext]_vars


\* ---------------------------------------------------- format negotiation
\* The format of the recording on its own: the probe of the preference
\* list, the construction of the recorder with its fallback, and the tag
\* of the blob built in onstop, for every set of supported formats.


\* const types = [...] of getSupportedMimeType, per revision
Types(rev) ==
    IF rev = "audio"
    THEN <<"video/webm;codecs=vp9,opus", "video/webm;codecs=vp8,opus",
           "video/webm;codecs=vp9", "video/webm;codecs=vp8", "video/webm",
           "video/mp4">>
    ELSE <<"video/webm;codecs=vp9", "video/webm;codecs=vp8", "video/webm",
           "video/mp4">>

AllTypes == {Types("audio")[i] : i \in 1..Len(Types("audio"))}

\* the format a recorder built without options reports when it reports one
PlatformDefault == "platform default"

\* for (const type of types) if (isTypeSupported(type)) return type;
\* return ""
RECURSIVE getSupportedMimeTypeLast(_, _)
getSupportedMimeTypeLast(types, sup) ==
    IF types = <<>> THEN ""
    ELSE IF getSupportedMimeTypeLast(Tail(types), sup) # ""
         THEN getSupportedMimeTypeLast(Tail(types), sup)
         ELSE IF Head(types) \in sup THEN Head(types) ELSE ""
RECURSIVE getSupportedMimeType(_, _)
getSupportedMimeType(types, sup) ==
    IF types = <<>> THEN ""
    ELSE IF Head(types) \in sup THEN Head(types)
    ELSE getSupportedMimeType(Tail(types), sup)

\* mediaRecorder.mimeType || "video/webm"
BlobType(m) == IF m # "" THEN m ELSE "video/webm"

MimeInit ==
    /\ pc = "idle"
    /\ config \in {c \in Configs : /\ c.images = 1
                                   /\ ~c.audioUrl
                                   /\ c.frameDuration = 1
                                   /\ c.totalDuration = 1}
    /\ load = <<>>
    /\ promise = NoPromise
    /\ log = <<>>
    /\ audioContext = FALSE
    /\ audioDestination = FALSE
    /\ audioSource = FALSE
    /\ ctxState = "none"
    /\ srcState = "none"
    /\ audioFailed = FALSE
    /\ audioTrack = FALSE
    /\ recState = "none"
    /\ recEvents = <<>>
    /\ recFault = FALSE
    /\ chunks = <<>>
    /\ fragments = 0
    /\ emitted = <<>>
    /\ now = TickUnit
    /\ startTime = 0
    /\ rafQueue = 0
    /\ ticks = 0
    /\ framesDrawn = 0
    /\ lastIndex = -1
    /\ lastImage = 0
    /\ lines = <<>>
    /\ wraps = 0
    /\ lastLayers = <<>>
    /\ loadedImages = <<>>
    /\ completed = <<>>
    /\ lastElapsed = -1
    /\ stopOnInactive = 0
    /\ wrapIn = NoWrap
    /\ wrapOut = <<>>
    /\ wrapPc = "off"
    /\ runPc = [r \in Runs |-> "idle"]
    /\ runFrames = [r \in Runs |-> 0]
    /\ canvas = 0
    /\ captured = [r \in Runs |-> {}]
    /\ drawLog = <<>>
    /\ ExtOff
    /\ supported \in SUBSET AllTypes
    /\ mimeType = ""
    /\ recMime = ""
    /\ blobType = ""
    /\ mimePc = "probe"

\* const mimeType = this.getSupportedMimeType()
ProbeMimeType ==
    /\ mimePc = "probe"
    /\ mimeType' = getSupportedMimeType(Types(config.rev), supported)
    /\ mimePc' = "construct"
    /\ UNCHANGED <<supported, recMime, blobType, runVars, wrapVars, surfaceVars, extVars>>

\* new MediaRecorder(stream, options), options = mimeType ? {mimeType} : {}:
\* a recorder built with a format reports that format, one built without
\* reports the platform's format or none
ConstructPreferred ==
    /\ mimePc = "construct"
    /\ \/ /\ \E m \in (IF mimeType # "" THEN {mimeType}
                       ELSE {"", PlatformDefault}) : recMime' = m
          /\ mimePc' = "recording"
       \/ /\ mimePc' = "retry"
          /\ UNCHANGED recMime
    /\ UNCHANGED <<supported, mimeType, blobType, runVars, wrapVars, surfaceVars, extVars>>

\* catch: new MediaRecorder(stream)
ConstructDefault ==
    /\ mimePc = "retry"
    /\ \/ /\ \E m \in {"", PlatformDefault} : recMime' = m
          /\ mimePc' = "recording"
       \/ /\ mimePc' = "failed"
          /\ UNCHANGED recMime
    /\ UNCHANGED <<supported, mimeType, blobType, runVars, wrapVars, surfaceVars, extVars>>

\* onstop: new Blob(chunks, {type: mediaRecorder.mimeType || "video/webm"})
TagBlob ==
    /\ mimePc = "recording"
    /\ blobType' = BlobType(recMime)
    /\ mimePc' = "done"
    /\ UNCHANGED <<supported, mimeType, recMime, runVars, wrapVars, surfaceVars, extVars>>

MimeNext ==
    \/ ProbeMimeType
    \/ ConstructPreferred
    \/ ConstructDefault
    \/ TagBlob

MimeSpec == MimeInit /\ [][MimeNext]_vars

\* ------------------------------------------------------------- wrapping
\* wrapText on its own, for every text up to MaxTextLen glyphs and for
\* texts of up to 8 equal words, at every width up to MaxLineWidth.
StringsUpTo(n) == UNION {[1..k -> Glyphs] : k \in 0..n}

Word(len) == [i \in 1..len |-> "x"]

\* count times the word w, joined by single spaces
RECURSIVE EqualWords(_, _)
EqualWords(count, w) ==
    IF count = 1 THEN w ELSE w \o <<Space>> \o EqualWords(count - 1, w)

Texts ==
    StringsUpTo(MaxTextLen)
        \cup {EqualWords(c, Word(l)) : c \in 1..8, l \in 1..MaxWordLen}

WrapInit ==
    /\ pc = "idle"
    /\ config = [rev |-> "audio", images |-> 0, audioUrl |-> FALSE,
                 frameDuration |-> 1, totalDuration |-> 1,
                 overlayText |-> <<"x">>, maxWidth |-> 2,
                 topText |-> FALSE, emojiCount |-> 0]
    /\ load = <<>>
    /\ promise = NoPromise
    /\ log = <<>>
    /\ audioContext = FALSE
    /\ audioDestination = FALSE
    /\ audioSource = FALSE
    /\ ctxState = "none"
    /\ srcState = "none"
    /\ audioFailed = FALSE
    /\ audioTrack = FALSE
    /\ recState = "none"
    /\ recEvents = <<>>
    /\ recFault = FALSE
    /\ chunks = <<>>
    /\ fragments = 0
    /\ emitted = <<>>
    /\ now = TickUnit
    /\ startTime = 0
    /\ rafQueue = 0
    /\ ticks = 0
    /\ framesDrawn = 0
    /\ lastIndex = -1
    /\ lastImage = 0
    /\ lines = <<>>
    /\ wraps = 0
    /\ lastLayers = <<>>
    /\ loadedImages = <<>>
    /\ completed = <<>>
    /\ supported = {}
    /\ mimeType = ""
    /\ recMime = ""
    /\ blobType = ""
    /\ mimePc = "off"
    /\ lastElapsed = -1
    /\ stopOnInactive = 0
    /\ wrapIn \in [text : Texts, maxWidth : 1..MaxLineWidth]
    /\ wrapOut = <<>>
    /\ wrapPc = "call"
    /\ runPc = [r \in Runs |-> "idle"]
    /\ runFrames = [r \in Runs |-> 0]
    /\ canvas = 0
    /\ captured = [r \in Runs |-> {}]
    /\ drawLog = <<>>
    /\ ExtOff

\* const lines = this.wrapText(config.overlayText, config.fontSize)
WrapText ==
    /\ wrapPc = "call"
    /\ wrapOut' = wrapText(wrapIn.text, wrapIn.maxWidth)
    /\ wrapPc' = "done"
    /\ UNCHANGED <<wrapIn, runVars, mimeVars, surfaceVars, extVars>>

WrapNext == WrapText

WrapSpec == WrapInit /\ [][WrapNext]_vars


\* ------------------------------------------------------- frame geometry
\* drawFrame's arithmetic, exact: a length is a whole number of units, a
\* ratio is a pair n / d.
MaxImageSide == 16
MaxLines == 3
MaxFontSize == 4

\* this.canvas.width, this.canvas.height
CanvasWidth == 1080
CanvasHeight == 1920

\* Math.max(a, b) on ratios
MathMin(a, b) == IF a.n * b.d <= b.n * a.d THEN a ELSE b
MathMax(a, b) == IF a.n * b.d >= b.n * a.d THEN a ELSE b

\* const scale = Math.max(width / img.width, height / img.height)
CoverScale(img) ==
    MathMax([n |-> CanvasWidth, d |-> img.width],
            [n |-> CanvasHeight, d |-> img.height])

\* x, y, img.width * scale, img.height * scale as handed to drawImage, in
\* units of 1 / (2 * scale.d) pixel
CoverFit(img) ==
    LET scale == CoverScale(img)
    IN  [unit |-> 2 * scale.d,
         x |-> CanvasWidth * scale.d - img.width * scale.n,
         y |-> CanvasHeight * scale.d - img.height * scale.n,
         w |-> 2 * img.width * scale.n,
         h |-> 2 * img.height * scale.n]

\* const lineHeight = fontSize * 1.25, in eighths of a pixel
LineHeight(fontSize) == fontSize * 10

\* const startY = -((lines.length - 1) * lineHeight) / 2
StartYHalfBlock(n, lineHeight) == -((n * lineHeight) \div 2)
StartY(n, lineHeight) == -(((n - 1) * lineHeight) \div 2)

\* lines.forEach((l, i) => { const ly = startY + i * lineHeight; ... })
CaptionYs(n, fontSize) ==
    [i \in 1..n |->
        StartY(n, LineHeight(fontSize)) + (i - 1) * LineHeight(fontSize)]

ImageSizes == [width : 1..MaxImageSide, height : 1..MaxImageSide]
Captions == [n : 1..MaxLines, fontSize : 1..MaxFontSize]

LayoutInit ==
    /\ NoRun
    /\ UploadOff
    /\ PageOff
    /\ LibraryOff
    /\ fitIn \in ImageSizes
    /\ fitOut = NoRect
    /\ fitPc = "call"
    /\ capIn \in Captions
    /\ capOut = <<>>
    /\ capPc = "call"

\* if (img) { ...; this.ctx.drawImage(img, x, y, ...) }
FitImage ==
    /\ fitPc = "call"
    /\ fitOut' = CoverFit(fitIn)
    /\ fitPc' = "done"
    /\ UNCHANGED <<fitIn, capIn, capOut, capPc, runVars, mimeVars,
                   wrapVars, surfaceVars, uploadVars, pageVars, libraryVars>>

\* if (lines.length > 0) { ...; lines.forEach(...) }
PlaceCaption ==
    /\ capPc = "call"
    /\ capIn.n > 0
    /\ capOut' = CaptionYs(capIn.n, capIn.fontSize)
    /\ capPc' = "done"
    /\ UNCHANGED <<capIn, fitIn, fitOut, fitPc, runVars, mimeVars,
                   wrapVars, surfaceVars, uploadVars, pageVars, libraryVars>>

LayoutNext ==
    \/ FitImage
    \/ PlaceCaption

LayoutSpec == LayoutInit /\ [][LayoutNext]_vars


\* --------------------------------------------------- TikTok draft upload
\* TikTokService.uploadDraft and the two requests it makes.
MaxBlobSize == 3

\* const initUrl
InitUrl == "https://open.tiktokapis.com/v2/post/publish/video/init/"

\* config.accessToken: empty or not
AccessTokens == {"", "t1", "t2"}

\* what data.upload_url of an init response can be: a URL, or undefined
UploadUrls == {"u1", "u2", "undefined"}

\* the body of a response: not JSON, JSON without data, or JSON whose data
\* has this upload_url
Bodies == {"unparsable", "nodata"} \cup UploadUrls

\* the responses a fetch can settle with
Responses == [ok : BOOLEAN, body : Bodies]

Request(method, url, size) == [method |-> method, url |-> url, size |-> size]

\* if (!initResponse.ok) { ...; throw }
InitOkUnchecked(response) == TRUE
InitOk(response) == response.ok

UploadDraftInit ==
    /\ NoRun
    /\ LayoutOff
    /\ PageOff
    /\ LibraryOff
    /\ upPc = "call"
    /\ upIn \in [accessToken : AccessTokens, size : 1..MaxBlobSize]
    /\ upInit = NoResponse
    /\ upPut = NoResponse
    /\ upUrl = None
    /\ upLog = <<>>
    /\ upResult = "pending"

uploadRest == <<runVars, mimeVars, wrapVars, surfaceVars, layoutVars, pageVars,
               libraryVars>>

\* uploadDraft(blob, title) up to the first await: the token check and
\* the init request
UploadDraft ==
    /\ upPc = "call"
    /\ IF upIn.accessToken = ""
       THEN /\ upResult' = "rejected"
            /\ upPc' = "done"
            /\ UNCHANGED upLog
       ELSE /\ upLog' = Append(upLog, Request("POST", InitUrl, upIn.size))
            /\ upPc' = "init"
            /\ UNCHANGED upResult
    /\ UNCHANGED <<upIn, upInit, upPut, upUrl, uploadRest>>

\* await fetch(initUrl, ...) rejects
InitFetchFails ==
    /\ upPc = "init"
    /\ upInit' = FetchFailed
    /\ upResult' = "rejected"
    /\ upPc' = "done"
    /\ UNCHANGED <<upIn, upPut, upUrl, upLog, uploadRest>>

\* await fetch(initUrl, ...) settles; if (!initResponse.ok) ...
InitResponds ==
    /\ upPc = "init"
    /\ \E response \in Responses :
          /\ upInit' = response
          /\ upPc' = IF InitOk(response) THEN "data" ELSE "error"
    /\ UNCHANGED <<upIn, upPut, upUrl, upLog, upResult, uploadRest>>

\* const err = await initResponse.json(); throw new Error(...)
InitFailed ==
    /\ upPc = "error"
    /\ upResult' = "rejected"
    /\ upPc' = "done"
    /\ UNCHANGED <<upIn, upInit, upPut, upUrl, upLog, uploadRest>>

\* const initData = await initResponse.json();
\* const uploadUrl = initData.data.upload_url; fetch(uploadUrl, ...)
InitData ==
    /\ upPc = "data"
    /\ IF upInit.body \in UploadUrls
       THEN /\ upUrl' = upInit.body
            /\ upLog' = Append(upLog, Request("PUT", upInit.body, upIn.size))
            /\ upPc' = "put"
            /\ UNCHANGED upResult
       ELSE /\ upResult' = "rejected"
            /\ upPc' = "done"
            /\ UNCHANGED <<upUrl, upLog>>
    /\ UNCHANGED <<upIn, upInit, upPut, uploadRest>>

\* await fetch(uploadUrl, ...) rejects
PutFetchFails ==
    /\ upPc = "put"
    /\ upPut' = FetchFailed
    /\ upResult' = "rejected"
    /\ upPc' = "done"
    /\ UNCHANGED <<upIn, upInit, upUrl, upLog, uploadRest>>

\* await fetch(uploadUrl, ...) settles; if (!uploadResponse.ok) throw;
\* return
PutResponds ==
    /\ upPc = "put"
    /\ \E response \in Responses :
          /\ upPut' = response
          /\ upResult' = IF response.ok THEN "resolved" ELSE "rejected"
    /\ upPc' = "done"
    /\ UNCHANGED <<upIn, upInit, upUrl, upLog, uploadRest>>

UploadNext ==
    \/ UploadDraft
    \/ InitFetchFails
    \/ InitResponds
    \/ InitFailed
    \/ InitData
    \/ PutFetchFails
    \/ PutResponds

UploadSpec == UploadDraftInit /\ [][UploadNext]_vars


\* ---------------------------------------------------------------- page
\* The page component (Home in src/app/layout.tsx, App in src/App.tsx)
\* in its two revisions:
\*   pageRev = "library" : layout.tsx 50-718  (media library, randomize)
\*   pageRev = "tiktok"  : layout.tsx 727-1159, App.tsx  (TikTok drafts)
\* Every handler runs to completion and the page is rendered again before
\* the next event; a generate() or uploadDraft() call the page awaits
\* settles in a later step.
MaxPageImages == 2
MaxImageChanges == 3
MaxGenerations == 3

PageRevisions == {"library", "tiktok"}

\* the blob generate() call g resolves with
BlobOf(g) == [generation |-> g.id, imagesVersion |-> g.imagesVersion]

PageInit ==
    /\ NoRun
    /\ LayoutOff
    /\ UploadOff
    /\ LibraryOff
    /\ pageRev \in PageRevisions
    /\ images = 0
    /\ imagesVersion = 0
    /\ status = "IDLE"
    /\ currentVideoUrl = 0
    /\ currentBlob = NoBlob
    /\ generating = {}
    /\ generations = 0
    /\ uploading = {}
    /\ accessToken = FALSE
    /\ showSettings = FALSE

pageRest == <<runVars, mimeVars, wrapVars, surfaceVars, layoutVars,
              uploadVars, libraryVars>>

\* resetGenerationState()
resetGenerationState ==
    /\ currentVideoUrl' = 0
    /\ currentBlob' = NoBlob
    /\ status' = "IDLE"

\* handlePaste, handleImageUpload, handleDrop with at least one image
\* file: setImages(prev => [...prev, ...newFiles]); resetGenerationState()
AddImages ==
    /\ imagesVersion < MaxImageChanges
    /\ \E n \in 1..MaxPageImages :
          /\ images + n <= MaxPageImages
          /\ images' = images + n
    /\ imagesVersion' = imagesVersion + 1
    /\ resetGenerationState
    /\ UNCHANGED <<pageRev, generating, generations, uploading, accessToken,
                   showSettings, pageRest>>

\* removeImage(indexToRemove), from the button on a thumbnail
RemoveImage ==
    /\ imagesVersion < MaxImageChanges
    /\ images > 0
    /\ images' = images - 1
    /\ imagesVersion' = imagesVersion + 1
    /\ resetGenerationState
    /\ UNCHANGED <<pageRev, generating, generations, uploading, accessToken,
                   showSettings, pageRest>>

\* clearAllImages(), from the button shown with the thumbnails
ClearAllImages ==
    /\ imagesVersion < MaxImageChanges
    /\ images > 0
    /\ images' = 0
    /\ imagesVersion' = imagesVersion + 1
    /\ resetGenerationState
    /\ UNCHANGED <<pageRev, generating, generations, uploading, accessToken,
                   showSettings, pageRest>>

\* handleRandomize() with a library that has images: setImages(imageFiles);
\* resetGenerationState()
Randomize ==
    /\ pageRev = "library"
    /\ imagesVersion < MaxImageChanges
    /\ \E n \in 0..MaxPageImages : images' = n
    /\ imagesVersion' = imagesVersion + 1
    /\ resetGenerationState
    /\ UNCHANGED <<pageRev, generating, generations, uploading, accessToken,
                   showSettings, pageRest>>

\* the Generate button: disabled={status === GENERATING || (status ===
\* UPLOADING_TIKTOK ||) images.length === 0}
GenerateEnabled ==
    /\ status # "GENERATING"
    /\ pageRev = "tiktok" => status # "UPLOADING_TIKTOK"
    /\ images # 0

\* handleGenerateVideo() up to await generator.generate(...)
ClickGenerate ==
    /\ GenerateEnabled
    /\ generations < MaxGenerations
    /\ images # 0
    /\ status' = "GENERATING"
    /\ currentVideoUrl' = 0
    /\ currentBlob' = NoBlob
    /\ generations' = generations + 1
    /\ generating' = generating \cup
          {[id |-> generations + 1, imagesVersion |-> imagesVersion]}
    /\ UNCHANGED <<pageRev, images, imagesVersion, uploading, accessToken,
                   showSettings, pageRest>>

\* handleGenerateVideo() after the await: generate() resolved
GenerateResolved ==
    \E g \in generating :
        /\ generating' = generating \ {g}
        /\ currentVideoUrl' = g.id
        /\ currentBlob' = BlobOf(g)
        /\ status' = "SUCCESS"
        /\ UNCHANGED <<pageRev, images, imagesVersion, generations,
                       uploading, accessToken, showSettings, pageRest>>

\* handleGenerateVideo(), the catch block: generate() rejected
GenerateRejected ==
    \E g \in generating :
        /\ generating' = generating \ {g}
        /\ status' = "ERROR"
        /\ UNCHANGED <<pageRev, images, imagesVersion, currentVideoUrl,
                       currentBlob, generations, uploading, accessToken,
                       showSettings, pageRest>>

\* the settings button: setShowSettings(!showSettings)
ToggleSettings ==
    /\ pageRev = "tiktok"
    /\ showSettings' = ~showSettings
    /\ UNCHANGED <<pageRev, images, imagesVersion, status, currentVideoUrl,
                   currentBlob, generating, generations, uploading,
                   accessToken, pageRest>>

\* the Access Token input of the settings panel
SetAccessToken ==
    /\ pageRev = "tiktok"
    /\ showSettings
    /\ accessToken' = ~accessToken
    /\ UNCHANGED <<pageRev, images, imagesVersion, status, currentVideoUrl,
                   currentBlob, generating, generations, uploading,
                   showSettings, pageRest>>

\* the Post Draft button is rendered: status === SUCCESS && currentBlob
PostShown ==
    /\ pageRev = "tiktok"
    /\ status = "SUCCESS"
    /\ currentBlob # NoBlob

\* handlePostToTikTok() up to await tikTokService.uploadDraft(...)
ClickPost ==
    /\ PostShown
    /\ currentBlob # NoBlob
    /\ IF ~accessToken
       THEN /\ showSettings' = TRUE
            /\ UNCHANGED <<status, uploading>>
       ELSE /\ status' = "UPLOADING_TIKTOK"
            /\ uploading' = uploading \cup {currentBlob}
            /\ UNCHANGED showSettings
    /\ UNCHANGED <<pageRev, images, imagesVersion, currentVideoUrl,
                   currentBlob, generating, generations, accessToken,
                   pageRest>>

\* handlePostToTikTok() after the await: uploadDraft() resolved, or
\* rejected (the catch block); both end in setStatus(SUCCESS)
UploadSettled ==
    \E b \in uploading :
        /\ uploading' = uploading \ {b}
        /\ status' = "SUCCESS"
        /\ UNCHANGED <<pageRev, images, imagesVersion, currentVideoUrl,
                       currentBlob, generating, generations, accessToken,
                       showSettings, pageRest>>

PageNext ==
    \/ AddImages
    \/ RemoveImage
    \/ ClearAllImages
    \/ Randomize
    \/ ClickGenerate
    \/ GenerateResolved
    \/ GenerateRejected
    \/ ToggleSettings
    \/ SetAccessToken
    \/ ClickPost
    \/ UploadSettled

PageSpec == PageInit /\ [][PageNext]_vars


\* -------------------------------------------------------- media library
\* The music previews of MediaLibrary: the Audio elements it creates, the
\* one it holds in audioRef, and the ended events the browser queues for
\* them.  An ended event is a task of its own: it is queued when playback
\* reaches the end and fires later, after whatever handler runs first.
MaxMusic == 2
MaxElements == 3

MusicIds == 1..MaxMusic
Tabs == {"images", "music", "texts", "emojis"}

LibraryInit ==
    /\ NoRun
    /\ LayoutOff
    /\ UploadOff
    /\ PageOff
    /\ music = MusicIds
    /\ elements = <<>>
    /\ endedQueue = {}
    /\ audioRef = 0
    /\ playingMusicId = 0
    /\ activeTab \in Tabs

libraryRest == <<runVars, mimeVars, wrapVars, surfaceVars, layoutVars,
                 uploadVars, pageVars>>

\* audio.pause() on element e of els
Pause(els, e) ==
    IF els[e].state = "playing"
    THEN [els EXCEPT ![e].state = "paused"]
    ELSE els

\* if (audioRef.current) { audioRef.current.pause(); }
PausePrevious(els, ref) == IF ref # 0 THEN Pause(els, ref) ELSE els

\* togglePlayMusic(music), from the play button of an item of the music tab
TogglePlayMusic ==
    /\ activeTab = "music"
    /\ \E m \in music :
          IF playingMusicId = m
          THEN /\ elements' = PausePrevious(elements, audioRef)
               /\ audioRef' = 0
               /\ playingMusicId' = 0
          ELSE /\ Len(elements) < MaxElements
               /\ elements' = Append(PausePrevious(elements, audioRef),
                                     [music |-> m, state |-> "playing"])
               /\ audioRef' = Len(elements) + 1
               /\ playingMusicId' = m
    /\ UNCHANGED <<music, endedQueue, activeTab, libraryRest>>

\* playback of an element reaches the end: the browser queues its ended
\* event
PlaybackEnds ==
    \E e \in 1..Len(elements) :
        /\ elements[e].state = "playing"
        /\ elements' = [elements EXCEPT ![e].state = "ended"]
        /\ endedQueue' = endedQueue \cup {e}
        /\ UNCHANGED <<music, audioRef, playingMusicId, activeTab,
                       libraryRest>>

\* audio.onended = () => { setPlayingMusicId(null); audioRef.current = null }
OnEnded ==
    \E e \in endedQueue :
        /\ endedQueue' = endedQueue \ {e}
        /\ playingMusicId' = 0
        /\ audioRef' = 0
        /\ UNCHANGED <<music, elements, activeTab, libraryRest>>

\* the delete button of a music item
DeleteMusic ==
    /\ activeTab = "music"
    /\ \E m \in music :
          /\ music' = music \ {m}
          /\ IF playingMusicId = m
             THEN /\ elements' = PausePrevious(elements, audioRef)
                  /\ audioRef' = 0
                  /\ playingMusicId' = 0
             ELSE UNCHANGED <<elements, audioRef, playingMusicId>>
    /\ UNCHANGED <<endedQueue, activeTab, libraryRest>>

\* a tab button, and the effect on [activeTab] that runs with the render
SwitchTab ==
    \E tab \in Tabs \ {activeTab} :
        /\ activeTab' = tab
        /\ IF tab # "music" /\ audioRef # 0
           THEN /\ elements' = Pause(elements, audioRef)
                /\ audioRef' = 0
                /\ playingMusicId' = 0
           ELSE UNCHANGED <<elements, audioRef, playingMusicId>>
        /\ UNCHANGED <<music, endedQueue, libraryRest>>

LibraryNext ==
    \/ TogglePlayMusic
    \/ PlaybackEnds
    \/ OnEnded
    \/ DeleteMusic
    \/ SwitchTab

LibrarySpec == LibraryInit /\ [][LibraryNext]_vars


\* ================================================================ claims
Settled == promise.state \in {"resolved", "rejected"}

\* the run is over: the promise is settled and nothing of the run is
\* pending any more (no animation callback, no recorder event)
RunEnded ==
    /\ Settled
    /\ rafQueue = 0
    /\ recEvents = <<>>
    /\ recState # "recording"

\* C1: generate() with an empty image list is rejected, and nothing has been
\* loaded, drawn, captured or created when it is
C1_EmptyInputFailsFirst ==
    (pc # "idle" /\ config.images = 0) =>
        /\ promise = Rejected("empty")
        /\ load = <<>>
        /\ log = <<>>
        /\ framesDrawn = 0
        /\ ctxState = "none"
        /\ recState = "none"

C1_Witness ==
    /\ pc = "ended"
    /\ config.images = 0
    /\ promise.state = "rejected"

\* C2: a tick at elapsed t < totalDuration draws images[floor(t/d) mod n]:
\* the index is in 0..n-1, it is congruent to the number f of whole frame
\* durations in t, it is 0 when totalDuration < d, and for n=3, d=1s,
\* total=5s the k-th one-second window shows 0,1,2,0,1
C2_ImageIndexLoops ==
    (ticks > 0 /\ lastElapsed < TotalDurationMs) =>
        LET t == lastElapsed
            d == FrameDurationMs
            n == config.images
        IN  /\ lastIndex \in 0..(n - 1)
            /\ \E f \in 0..MaxTotalDuration :
                /\ f * d <= t
                /\ t < (f + 1) * d
                /\ \E q \in 0..f : f = q * n + lastIndex
            /\ TotalDurationMs < d => lastIndex = 0
            /\ (n = 3 /\ config.frameDuration = 1 /\ config.totalDuration = 5)
                 => \E k \in 0..4 :
                        /\ k * MsPerSecond <= t
                        /\ t < (k + 1) * MsPerSecond
                        /\ lastIndex = <<0, 1, 2, 0, 1>>[k + 1]

C2_Witness ==
    /\ config.images = 3
    /\ config.frameDuration = 1
    /\ config.totalDuration = 5
    /\ ticks > 0
    /\ lastElapsed >= 4 * MsPerSecond
    /\ lastElapsed < 5 * MsPerSecond
    /\ lastIndex = 1

\* C3: a tick below totalDuration draws one frame, schedules one next tick
\* and leaves the encoder alone; a tick at or after totalDuration calls
\* stop, draws nothing and schedules nothing; stop is called by nothing else
C3_LoopStopsAtTotal ==
    [][/\ ticks' = ticks + 1 =>
            IF now' - startTime >= TotalDurationMs
            THEN /\ Count(log', "recorder.stop")
                      = Count(log, "recorder.stop") + 1
                 /\ framesDrawn' = framesDrawn
                 /\ rafQueue' = 0
                 /\ Count(log', "requestAnimationFrame")
                      = Count(log, "requestAnimationFrame")
            ELSE /\ Count(log', "recorder.stop") = 0
                 /\ recState' = recState
                 /\ recEvents' = recEvents
                 /\ framesDrawn' = framesDrawn + 1
                 /\ rafQueue' = 1
       /\ ticks' = ticks =>
            Count(log', "recorder.stop") = Count(log, "recorder.stop")
      ]_vars

C3_Witness ==
    /\ Called("recorder.stop")
    /\ lastElapsed = TotalDurationMs
    /\ ticks >= 3
    /\ framesDrawn = ticks
    /\ rafQueue = 0

C5_EncoderStartStopOnce ==
    /\ Count(log, "recorder.start") <= 1
    /\ Count(log, "recorder.stop") <= 1
    /\ stopOnInactive = 0

\* C6: an audio context that was opened is closed exactly once by the end
\* of the run: never twice, and not left open
C6_ContextClosedOnce ==
    /\ Count(log, "context.close") <= 1
    /\ (RunEnded /\ Called("new AudioContext"))
          => Count(log, "context.close") = 1

\* C7: when the run is rejected for an encoder fault (construction failed
\* twice, or an error while recording) with the audio graph built, playback
\* is stopped and the context is closed
C7_TeardownBeforeReject ==
    (/\ promise.state = "rejected"
     /\ promise.cause \in {"construct", "encoder"}
     /\ audioSource
     /\ ~audioFailed)
        => /\ ctxState = "closed"
           /\ srcState # "playing"

\* C8: a failed audio setup is never the reason of a rejection; without an
\* encoder fault the run records, loops to totalDuration and resolves
C8_AudioFailureNotFatal ==
    audioFailed =>
        /\ promise.cause # "audio"
        /\ promise.state = "rejected" =>
              \/ promise.cause = "construct"
              \/ promise.cause = "encoder" /\ recFault
        /\ pc # "ended"
              => pc \in {"recorder_new", "recorder_retry", "recorder_start",
                         "recording"}
        /\ (RunEnded /\ ~recFault /\ promise.cause # "construct") =>
              /\ promise.state = "resolved"
              /\ Called("recorder.start")
              /\ lastElapsed >= TotalDurationMs

C8_Witness ==
    /\ audioFailed
    /\ RunEnded
    /\ promise.state = "resolved"
    /\ ctxState # "none"

\* C9: after a failed audio setup there is no audio track on the recorded
\* stream, no playback source is started and teardown calls no audio object
C9_AudioPathAbsent ==
    audioFailed =>
        /\ ~audioTrack
        /\ ~Called("source.start")
        /\ ~Called("source.stop")
        /\ ~Called("context.close")
        /\ srcState \in {"none", "created"}

\* C10: when an image fails to decode the run is rejected with the decode
\* error; no frame, capture stream, audio context or encoder exists, and
\* every image was loaded at most once
C10_DecodeFailureFatal ==
    (\E i \in DOMAIN load : load[i] = "failed") =>
        /\ promise = Rejected("decode")
        /\ pc = "ended"
        /\ framesDrawn = 0
        /\ ~Called("captureStream")
        /\ ctxState = "none"
        /\ recState = "none"
        /\ Count(log, "createObjectURL") = config.images
        /\ Len(log) = config.images

C10_Witness ==
    /\ \E i \in DOMAIN load : load[i] = "failed"
    /\ \E i \in DOMAIN load : load[i] = "loaded"
    /\ promise.state = "rejected"


\* C11: whatever the order in which the loads completed, the sequence the
\* draw loop reads has one image per input, image i in slot i, and every
\* frame drawn shows the image of the slot its index names
C11_LoadedOrderMatchesInput ==
    /\ pc \notin {"idle", "loading", "ended"} =>
          /\ Len(loadedImages) = config.images
          /\ \A i \in 1..config.images : loadedImages[i] = i
    /\ framesDrawn > 0 => lastImage = lastIndex + 1

C11_Witness ==
    /\ pc = "after_load"
    /\ config.images = 3
    /\ completed = <<3, 1, 2>>
    /\ loadedImages = <<1, 2, 3>>


C13_FirstSupportedFormat ==
    mimePc \notin {"off", "probe"} =>
        LET types == Types(config.rev)
            hits == {i \in 1..Len(types) : types[i] \in supported}
        IN  /\ mimeType = "" <=> hits = {}
            /\ hits # {} =>
                 \E i \in hits : /\ mimeType = types[i]
                                 /\ \A j \in hits : i <= j

C13_Witness ==
    /\ mimePc = "construct"
    /\ config.rev = "audio"
    /\ supported = {"video/webm;codecs=vp8", "video/mp4"}
    /\ mimeType = "video/webm;codecs=vp8"


\* C18: the format tag of the finished video is a probed format that is
\* supported, or the platform's own format; never an unsupported one
C18_FormatNeverUnsupported ==
    mimePc = "done" =>
        \/ blobType = PlatformDefault
        \/ blobType \in supported


Attempts(call) == Count(log, call) + Count(log, call \o " throws")

\* C14: a failed construction with the preferred options is retried once
\* without options; after a successful retry the run goes on as usual,
\* after a failed retry generate() is rejected and nothing is started
C14_ConstructRetriedOnce ==
    /\ Attempts("new MediaRecorder") <= 1
    /\ Attempts("new MediaRecorder default")
         = (IF pc = "recorder_retry" THEN 0
            ELSE Count(log, "new MediaRecorder throws"))
    /\ Called("new MediaRecorder default") =>
          /\ pc \in {"recorder_start", "recording"}
          /\ promise.cause # "construct"
          /\ recState # "none"
          /\ (RunEnded /\ ~recFault) =>
                /\ promise.state = "resolved"
                /\ lastElapsed >= TotalDurationMs
    /\ Called("new MediaRecorder default throws") <=>
          promise.cause = "construct"
    /\ promise.cause = "construct" =>
          /\ promise.state = "rejected"
          /\ pc = "ended"
          /\ recState = "none"
          /\ ~Called("recorder.start")
          /\ ~Called("requestAnimationFrame")
          /\ rafQueue = 0
          /\ ticks = 0
          /\ framesDrawn = 1

C14_Witness ==
    /\ Called("new MediaRecorder throws")
    /\ Called("new MediaRecorder default")
    /\ RunEnded
    /\ promise.state = "resolved"


\* C15: with an audio source, playback and recording are started by the
\* same step, one call right after the other, before any tick or encoder
\* event; playback is started exactly in the runs that start the encoder
C15_PlaybackStartsWithRecording ==
    /\ [](audioSource =>
            /\ Called("source.start") <=> Called("recorder.start")
            /\ Count(log, "source.start") <= 1
            /\ Called("source.start") =>
                  Pos(log, "recorder.start") = Pos(log, "source.start") + 1
            /\ srcState = "playing" => recState # "none")
    /\ [](~audioSource => ~Called("source.start"))
    /\ [][(srcState # "playing" /\ srcState' = "playing") =>
            /\ recState # "recording"
            /\ recState' = "recording"
            /\ ticks' = 0
            /\ recEvents' = <<>>
            /\ rafQueue' = 1]_vars

C15_Witness ==
    /\ audioSource
    /\ ~audioFailed
    /\ srcState = "playing"
    /\ recState = "recording"
    /\ Pos(log, "recorder.start") = Pos(log, "source.start") + 1

\* C16: the payload of a resolved promise is the fragments the recorder
\* emitted that carry data, each exactly once and in the order they were
\* emitted
C16_BlobIsFragmentsInOrder ==
    promise.state = "resolved" =>
        LET kept == {i \in 1..Len(emitted) : emitted[i] > 0}
            blob == promise.blob
        IN  /\ Len(blob) = Cardinality(kept)
            /\ \A k \in 1..Len(blob) : blob[k] \in kept
            /\ \A k \in 1..Len(blob) : \A l \in 1..Len(blob) :
                  k < l => blob[k] < blob[l]

C16_Witness ==
    /\ promise.state = "resolved"
    /\ Len(promise.blob) >= 2
    /\ \E i \in 1..Len(emitted) : emitted[i] = 0

\* C17: a resolved promise never carries an empty payload
C17_PayloadNotEmpty ==
    promise.state = "resolved" => Len(promise.blob) > 0

\* C19: a run rejected for an encoder error during recording has stopped
\* playback and has no audio context left open, and the teardown calls come
\* before the reject
C19_ErrorTearsDownThenRejects ==
    /\ []((promise.state = "rejected" /\ promise.cause = "encoder")
          => /\ ctxState \in {"none", "closed"}
             /\ srcState # "playing"
             /\ Called("source.start")
                   => CalledBefore("source.stop", "reject")
             /\ ctxState = "closed"
                   => CalledBefore("context.close", "reject"))
    /\ [][(recEvents # <<>> /\ Head(recEvents).type = "error"
            /\ recEvents' = Tail(recEvents) /\ promise.state = "pending")
          => promise' = Rejected("encoder")]_vars

\* C20: a run that got past the empty check is eventually settled, by
\* its own steps alone
C20_RunTerminates == (promise.state = "pending") ~> Settled

C20_Witness ==
    /\ promise.state = "resolved"
    /\ recState = "inactive"
    /\ ticks >= 2
    /\ recEvents = <<>>

\* a line without the separator the loop appended after its last word
Visible(line) == SubSeq(line, 1, Len(line) - 1)

IsWord(s) == \A i \in 1..Len(s) : s[i] # Space

RECURSIVE Flatten(_)
Flatten(ls) == IF ls = <<>> THEN <<>> ELSE Head(ls) \o Flatten(Tail(ls))

RECURSIVE Trim(_)
Trim(s) ==
    IF s = <<>> THEN s
    ELSE IF Head(s) = Space THEN Trim(Tail(s))
    ELSE IF s[Len(s)] = Space THEN Trim(SubSeq(s, 1, Len(s) - 1))
    ELSE s

\* C23: a text of one word narrower than the width comes back as one
\* line, which is that word once trimmed
C23_ShortWordOneLine ==
    (/\ wrapPc = "done"
     /\ wrapIn.text # <<>>
     /\ IsWord(wrapIn.text)
     /\ MeasureText(wrapIn.text) < wrapIn.maxWidth)
        => /\ Len(wrapOut) = 1
           /\ Trim(wrapOut[1]) = wrapIn.text

C23_Witness ==
    /\ wrapPc = "done"
    /\ wrapIn.text = <<"x", "x">>
    /\ wrapIn.maxWidth = 3
    /\ wrapOut = <<(<<"x", "x", Space>>)>>

\* C24: with an empty overlay text the wrapped caption is empty and no
\* frame of the run has a caption layer
C24_EmptyTextNoCaption ==
    (config.overlayText = <<>> /\ framesDrawn > 0) =>
        /\ lines = <<>>
        /\ Count(lastLayers, "caption") = 0

C24_Witness ==
    /\ config.overlayText = <<>>
    /\ config.rev = "audio"
    /\ wraps = 1
    /\ framesDrawn >= 3
    /\ lastLayers = <<"background", "image">>

\* C25: the caption is wrapped once in a run, before the first frame, and
\* the lines do not change from frame to frame
C25_CaptionWrappedOnce ==
    /\ [](wraps <= 1)
    /\ []((framesDrawn >= 1 /\ config.overlayText # <<>>) => wraps = 1)
    /\ [][framesDrawn >= 1 => lines' = lines]_vars

\* C26: every frame draws as many sticker instances as the configuration
\* asks for, none when no sticker is configured
C26_StickersOnEveryFrame ==
    framesDrawn >= 1 => Count(lastLayers, "sticker") = config.emojiCount

\* object URLs created by loadImage and not revoked
LiveObjectUrls ==
    Count(log, "createObjectURL") - Count(log, "revokeObjectURL")

\* C27: when the run is over, completed or failed, every object URL made
\* for its images has been revoked
C27_ObjectUrlsReleased == RunEnded => LiveObjectUrls = 0

\* C29: after the rejection for an encoder error nothing more happens in
\* the run: no animate() call, no frame, no stop() on the recorder
C29_EncoderErrorTerminal ==
    [][(promise.state = "rejected" /\ promise.cause = "encoder")
          => /\ ticks' = ticks
             /\ framesDrawn' = framesDrawn
             /\ rafQueue' = rafQueue
             /\ Count(log', "recorder.stop") = Count(log, "recorder.stop")
             /\ stopOnInactive' = stopOnInactive]_vars

C28_SurfaceOwnedByOneRun ==
    /\ \A r \in Runs : captured[r] \subseteq {r}
    /\ \A i \in 1..Len(drawLog) : \A j \in i..Len(drawLog) :
          \A k \in j..Len(drawLog) :
              drawLog[i] = drawLog[k] => drawLog[j] = drawLog[i]

\* C39: the three recorder handlers are assigned before the recorder is
\* started, so that every event the recorder queues finds its handler
C39_HandlersBeforeStart ==
    /\ Called("recorder.start") =>
          /\ CalledBefore("ondataavailable", "recorder.start")
          /\ CalledBefore("onstop", "recorder.start")
          /\ CalledBefore("onerror", "recorder.start")
    /\ (recState = "recording" \/ recEvents # <<>>) =>
          /\ Called("ondataavailable")
          /\ Called("onstop")
          /\ Called("onerror")

C39_Witness ==
    /\ recEvents # <<>>
    /\ Head(recEvents).type = "error"
    /\ Pos(log, "onerror") < Pos(log, "recorder.start")

\* the words of the lines, line after line, each line split as it stands
RECURSIVE WordsOfLines(_)
WordsOfLines(ls) ==
    IF ls = <<>> THEN <<>> ELSE Split(Head(ls)) \o WordsOfLines(Tail(ls))

\* the same with the separator after the last word of each line removed
RECURSIVE WordsOfVisible(_)
WordsOfVisible(ls) ==
    IF ls = <<>> THEN <<>>
    ELSE Split(Visible(Head(ls))) \o WordsOfVisible(Tail(ls))

\* C33 as stated: the lines split on spaces give the words of the text
C33_WordsOfLinesAreInput ==
    (wrapPc = "done" /\ wrapIn.text # <<>>)
        => WordsOfLines(wrapOut) = Split(wrapIn.text)

\* C33 amended: the lines, without the separator wrapText leaves after the
\* last word of each, split on spaces give the words of the text in order
C33_WordsConserved ==
    (wrapPc = "done" /\ wrapIn.text # <<>>)
        => WordsOfVisible(wrapOut) = Split(wrapIn.text)

C33_Witness ==
    /\ wrapPc = "done"
    /\ Len(wrapOut) >= 2
    /\ Len(Split(wrapIn.text)) >= 4
    /\ \E i \in 1..Len(Split(wrapIn.text)) : Split(wrapIn.text)[i] = <<>>
    /\ WordsOfVisible(wrapOut) = Split(wrapIn.text)

\* C31: the image is drawn scaled by the larger of the two canvas/image
\* ratios and centered: the rectangle covers the canvas (left and top
\* offsets <= 0, right and bottom edges >= the canvas size) and touches
\* it in one direction, the overflow is cut equally on opposite sides,
\* and the aspect ratio of the image is kept
C31_CoverFit ==
    fitPc = "done" =>
        LET r == fitOut
            cw == CanvasWidth * r.unit
            ch == CanvasHeight * r.unit
        IN  /\ r.x <= 0 /\ r.y <= 0
            /\ r.x + r.w >= cw /\ r.y + r.h >= ch
            /\ r.w = cw \/ r.h = ch
            /\ -r.x = (r.x + r.w) - cw
            /\ -r.y = (r.y + r.h) - ch
            /\ r.w * fitIn.height = r.h * fitIn.width

\* an image wider than the canvas ratio has been fitted: it overflows left
\* and right
C31_Witness ==
    /\ fitPc = "done"
    /\ fitIn.width * CanvasHeight > fitIn.height * CanvasWidth
    /\ fitOut.x < 0
    /\ fitOut.y = 0

\* C32 as stated: the first line lies half the block height,
\* n * lineHeight / 2, above the canvas center and each following line one
\* line height lower
C32_FirstLineHalfBlockUp ==
    capPc = "done" =>
        /\ 2 * capOut[1] = -(capIn.n * LineHeight(capIn.fontSize))
        /\ \A i \in 1..(capIn.n - 1) :
              capOut[i + 1] = capOut[i] + LineHeight(capIn.fontSize)

\* C32: the caption is a block centered on the canvas center: the middle
\* of the first line lies (n - 1) * lineHeight / 2 above the center, each
\* following line one line height lower, so the first and the last line
\* are equally far from the center
C32_CaptionBlockCentered ==
    capPc = "done" =>
        /\ Len(capOut) = capIn.n
        /\ 2 * capOut[1] = -((capIn.n - 1) * LineHeight(capIn.fontSize))
        /\ \A i \in 1..(capIn.n - 1) :
              capOut[i + 1] = capOut[i] + LineHeight(capIn.fontSize)
        /\ capOut[1] + capOut[capIn.n] = 0

\* a caption of three lines has been placed
C32_Witness ==
    /\ capPc = "done"
    /\ capIn.n = 3
    /\ capOut[1] < 0
    /\ capOut[2] = 0

Puts == {i \in 1..Len(upLog) : upLog[i].method = "PUT"}

\* C37: uploadDraft keeps a strict order: with an empty access token it
\* fails before any request; a PUT is issued only after the init request
\* was answered with ok, once, and to the upload_url of that answer; it
\* resolves only if both requests were answered with ok; when init fails
\* it fails without a PUT
C37_UploadInOrder ==
    /\ (upPc \notin {"off", "call"} /\ upIn.accessToken = "") =>
          /\ upLog = <<>>
          /\ upResult = "rejected"
    /\ \A i \in Puts :
          /\ i = 2
          /\ upLog[1] = Request("POST", InitUrl, upIn.size)
          /\ upInit \in Responses
          /\ upInit.ok
          /\ upLog[i].url = upInit.body
    /\ upResult = "resolved" =>
          /\ upInit \in Responses /\ upInit.ok
          /\ upPut \in Responses /\ upPut.ok
          /\ Puts = {2}
    /\ (upPc = "done" /\ (upInit = FetchFailed \/ (upInit \in Responses /\ ~upInit.ok))) =>
          /\ Puts = {}
          /\ upResult = "rejected"

\* an upload went through: init answered ok with a URL, the PUT to that
\* URL answered ok
C37_Witness ==
    /\ upPc = "done"
    /\ upResult = "resolved"
    /\ Len(upLog) = 2
    /\ upLog[2].url = "u1"

\* C34: at most one generate() call of the page is unsettled at any time
C34_OneGenerationInFlight == Cardinality(generating) <= 1

\* C35: the result the page shows was generated from the present image
\* list: a blob (and its URL) is installed, and SUCCESS is shown for it,
\* only by a generation started after the last change of the image list
C35_NoStaleResult ==
    /\ currentBlob # NoBlob => currentBlob.imagesVersion = imagesVersion
    /\ currentVideoUrl # 0 => currentVideoUrl = currentBlob.generation

\* C36: in the page with TikTok publishing SUCCESS implies a blob;
\* UPLOADING_TIKTOK is entered only from SUCCESS with a blob and a token,
\* and an upload that settles leaves SUCCESS with the blob it was started
\* for
C36_SuccessHasBlob ==
    /\ []((pageRev = "tiktok" /\ status = "SUCCESS") => currentBlob # NoBlob)
    /\ [][(pageRev = "tiktok" /\ status # "UPLOADING_TIKTOK"
            /\ status' = "UPLOADING_TIKTOK") =>
              (status = "SUCCESS" /\ currentBlob # NoBlob /\ accessToken)]_vars
    /\ [][\A b \in uploading :
            (pageRev = "tiktok" /\ b \notin uploading') =>
               (status' = "SUCCESS" /\ currentBlob' = b)]_vars

Playing == {e \in 1..Len(elements) : elements[e].state = "playing"}

\* C38: at most one preview plays at a time, and, once the ended events
\* queued have fired, playingMusicId is set exactly when an element is held
\* and playing, and no paused or ended element is held
C38_OnePreviewPlays ==
    /\ Cardinality(Playing) <= 1
    /\ endedQueue = {} =>
          /\ playingMusicId # 0 <=> (audioRef # 0 /\ audioRef \in Playing)
          /\ audioRef # 0 => audioRef \in Playing

====
